---- MODULE Spec2Model ----
(***************************************************************************)
(* Model of package gen (src/gen.go): the Generator, an append-only text   *)
(* buffer with an indentation level, an indentation unit and a flag that   *)
(* says whether the next write lands at the start of a line.               *)
(*                                                                         *)
(* A Go string is a sequence of one-character strings.  Every method of    *)
(* Generator is an operator from a generator record to a generator record, *)
(* written as the code is written; an action applies one method to the     *)
(* generator held in the variables.                                        *)
(*                                                                         *)
(* Spec           every plain operation, in any order                      *)
(* SpecBlock      Block with fn returning or panicking, the level          *)
(*                operations and the lines a fn writes                     *)
(* SpecFmt        the formatted writes, fmt.Sprintf modelled as fmt        *)
(*                documents it (%!verb(type=value), MISSING, EXTRA)        *)
(* SpecEmptyLines the chain Line(a).Break().Break().Line(b)                *)
(***************************************************************************)
EXTENDS Integers, Sequences, FiniteSets, TLC

\* ------------------------------------------------------------------ bounds
\* longest content string handed to a write
MaxLen == 2
\* writes are issued while the buffer is shorter than this
MaxBuf == 2
\* Indent is issued while the level is below this
MaxDepth == 2
\* largest argument of WithSpaces
MaxSpaces == 1
\* deepest nesting of Block calls
MaxNest == 2
\* longest format template handed to a formatted write
MaxFmtLen == 2
\* most arguments handed to a formatted write
MaxArgs == 1

\* ------------------------------------------------------------- characters
NL == "\n"
SP == " "
TAB == "\t"
\* characters of the content strings the callers write
Chars == {"a", NL}
\* all strings over Chars of length at most MaxLen
Contents == UNION {[1..n -> Chars] : n \in 0..MaxLen}

\* the contents that are one non-empty line, without a line break
Lines == {c \in Contents : c # <<>> /\ \A i \in 1..Len(c) : c[i] # NL}

\* characters of the format templates: the verb marker and two letters, each
\* a verb after the marker and plain text elsewhere
FmtChars == {"%", "d", "s"}
\* all templates over FmtChars of length at most MaxFmtLen
Formats == UNION {[1..n -> FmtChars] : n \in 0..MaxFmtLen}
\* the values passed as arguments: the string "a" and the int 1, each with
\* its type's name and its default (%v) rendering
ArgValues ==
    {[type |-> <<"s", "t", "r", "i", "n", "g">>, val |-> <<"a">>, verb |-> "s"],
     [type |-> <<"i", "n", "t">>, val |-> <<"1">>, verb |-> "d"]}
\* all argument lists of at most MaxArgs values
ArgLists == UNION {[1..n -> ArgValues] : n \in 0..MaxArgs}

\* ------------------------------------------------- package strings (Go)
RECURSIVE Repeat(_, _)
\* strings.Repeat(s, count); the callers here never pass a negative count
Repeat(s, count) == IF count <= 0 THEN <<>> ELSE s \o Repeat(s, count - 1)

\* strings.HasSuffix(s, suffix)
HasSuffix(s, suffix) ==
    /\ Len(s) >= Len(suffix)
    /\ SubSeq(s, Len(s) - Len(suffix) + 1, Len(s)) = suffix

RECURSIVE Split(_, _)
\* strings.Split(s, sep) for a one-character separator: the substrings
\* between the separators, n separators giving n + 1 substrings
Split(s, sep) ==
    IF \E i \in 1..Len(s) : s[i] = sep
    THEN LET i == CHOOSE j \in 1..Len(s) :
                      /\ s[j] = sep
                      /\ \A k \in 1..(j - 1) : s[k] # sep
         IN  <<SubSeq(s, 1, i - 1)>> \o Split(SubSeq(s, i + 1, Len(s)), sep)
    ELSE <<s>>

\* mutant of WriteString: the buffer is replaced, not extended
WriteStringReplacing(g, s) == [g EXCEPT !.sb = s]

\* (*strings.Builder).WriteString on the generator's buffer
WriteString(g, s) == [g EXCEPT !.sb = @ \o s]

\* ---------------------------------------------------------------- methods
\* New(): empty buffer, level 0, two spaces, at the start of a line
New ==
    [sb |-> <<>>, indentLevel |-> 0, indentString |-> <<SP, SP>>,
     atStartOfLine |-> TRUE]

WithSpaces(g, spaces) == [g EXCEPT !.indentString = Repeat(<<SP>>, spaces)]

\* mutant of WithTabs: the tab is added to the unit in use
WithTabsAppending(g) == [g EXCEPT !.indentString = @ \o <<TAB>>]

WithTabs(g) == [g EXCEPT !.indentString = <<TAB>>]

Indent(g) == [g EXCEPT !.indentLevel = @ + 1]

\* mutant of Dedent: the guard on the level is missing
DedentUnguarded(g) == [g EXCEPT !.indentLevel = @ - 1]

Dedent(g) == IF g.indentLevel > 0 THEN [g EXCEPT !.indentLevel = @ - 1] ELSE g

\* mutant of Raw: the test for empty content is missing
RawWithoutEmptyCheck(g, content) ==
    LET w == WriteString(g, content)
    IN  IF HasSuffix(content, <<NL>>)
        THEN [w EXCEPT !.atStartOfLine = TRUE]
        ELSE [w EXCEPT !.atStartOfLine = FALSE]

\* mutant of Raw: content ending in a line break does not set the flag
RawNeverAtStart(g, content) ==
    IF content = <<>> THEN g
    ELSE [WriteString(g, content) EXCEPT !.atStartOfLine = FALSE]

\* mutant of Raw: indents at the start of a line, as Inline does
RawIndenting(g, content) ==
    IF content = <<>> THEN g
    ELSE LET w == WriteString(
                    IF g.atStartOfLine
                    THEN WriteString(g, Repeat(g.indentString, g.indentLevel))
                    ELSE g, content)
         IN  [w EXCEPT !.atStartOfLine = HasSuffix(content, <<NL>>)]

Raw(g, content) ==
    IF content = <<>> THEN g
    ELSE LET w == WriteString(g, content)
         IN  IF HasSuffix(content, <<NL>>)
             THEN [w EXCEPT !.atStartOfLine = TRUE]
             ELSE [w EXCEPT !.atStartOfLine = FALSE]

\* mutant of Break: no break is written when already at the start of a line
BreakOnlyMidLine(g) ==
    IF g.atStartOfLine THEN g
    ELSE [WriteString(g, <<NL>>) EXCEPT !.atStartOfLine = TRUE]

\* mutant of Break: the flag is left as it was
BreakKeepingFlag(g) == WriteString(g, <<NL>>)

Break(g) == [WriteString(g, <<NL>>) EXCEPT !.atStartOfLine = TRUE]

\* mutant of InlineStep: an empty sub-line is indented like any other
InlineStepIndentingEmpty(g, idx, subline) ==
    LET g1 == IF idx > 0
              THEN [WriteString(g, <<NL>>) EXCEPT !.atStartOfLine = TRUE]
              ELSE g
        g2 == IF g1.atStartOfLine
              THEN WriteString(g1, Repeat(g1.indentString, g1.indentLevel))
              ELSE g1
    IN  [WriteString(g2, subline) EXCEPT !.atStartOfLine = FALSE]

\* mutant of InlineStep: the indentation is written whatever the flag says
InlineStepAlwaysIndenting(g, idx, subline) ==
    LET g1 == IF idx > 0
              THEN [WriteString(g, <<NL>>) EXCEPT !.atStartOfLine = TRUE]
              ELSE g
    IN  IF subline # <<>>
        THEN [WriteString(
                 WriteString(g1, Repeat(g1.indentString, g1.indentLevel)),
                 subline) EXCEPT !.atStartOfLine = FALSE]
        ELSE g1

\* mutant of InlineStep: a sub-line after a break is not indented
InlineStepNoIndentAfterBreak(g, idx, subline) ==
    LET g1 == IF idx > 0 THEN WriteString(g, <<NL>>) ELSE g
    IN  IF subline # <<>>
        THEN LET g2 == IF g1.atStartOfLine
                       THEN WriteString(
                                g1, Repeat(g1.indentString, g1.indentLevel))
                       ELSE g1
             IN  [WriteString(g2, subline) EXCEPT !.atStartOfLine = FALSE]
        ELSE g1

\* one iteration of Inline's loop, for the sub-line at index idx (from 0)
InlineStep(g, idx, subline) ==
    LET g1 == IF idx > 0
              THEN [WriteString(g, <<NL>>) EXCEPT !.atStartOfLine = TRUE]
              ELSE g
    IN  IF subline # <<>>
        THEN LET g2 == IF g1.atStartOfLine
                       THEN WriteString(
                                g1, Repeat(g1.indentString, g1.indentLevel))
                       ELSE g1
             IN  [WriteString(g2, subline) EXCEPT !.atStartOfLine = FALSE]
        ELSE g1

RECURSIVE InlineLoop(_, _, _)
\* Inline's loop over the sub-lines, from index idx (from 0) on
InlineLoop(g, sublines, idx) ==
    IF idx >= Len(sublines) THEN g
    ELSE InlineLoop(InlineStep(g, idx, sublines[idx + 1]), sublines, idx + 1)

\* mutant of Inline: the content is followed by a line break
InlineEndingLine(g, content) ==
    IF content = <<>> THEN g
    ELSE Break(InlineLoop(g, Split(content, NL), 0))

Inline(g, content) ==
    IF content = <<>> THEN g
    ELSE LET w == InlineLoop(g, Split(content, NL), 0)
         IN  IF HasSuffix(content, <<NL>>)
             THEN [w EXCEPT !.atStartOfLine = TRUE]
             ELSE w

\* ----------------------------------------------------- package fmt (Go)
\* fmt's rendering of an argument under a verb: the value when the verb is
\* one of its type's, else the bad-verb text %!verb(type=value)
PrintArg(arg, verb) ==
    IF verb = arg.verb THEN arg.val
    ELSE <<"%", "!", verb, "(">> \o arg.type \o <<"=">> \o arg.val \o <<")">>

RECURSIVE ExtraArgs(_, _)
\* the arguments left over, from index n on, as fmt lists them: type=value
\* separated by comma and space
ExtraArgs(args, n) ==
    IF n > Len(args) THEN <<>>
    ELSE args[n].type \o <<"=">> \o args[n].val
         \o (IF n < Len(args) THEN <<",", " ">> ELSE <<>>)
         \o ExtraArgs(args, n + 1)

RECURSIVE DoPrintf(_, _, _, _)
\* fmt's loop over the template from position i (from 1), argNum arguments
\* used so far: text is copied; %% is a percent sign; a % that ends the
\* template is %!(NOVERB); a verb with no argument left is %!verb(MISSING);
\* any other verb renders the next argument; arguments left over at the end
\* are listed as %!(EXTRA type=value, ...)
DoPrintf(format, i, args, argNum) ==
    IF i > Len(format)
    THEN IF argNum < Len(args)
         THEN <<"%", "!", "(", "E", "X", "T", "R", "A", " ">>
                  \o ExtraArgs(args, argNum + 1) \o <<")">>
         ELSE <<>>
    ELSE IF format[i] # "%"
    THEN <<format[i]>> \o DoPrintf(format, i + 1, args, argNum)
    ELSE IF i + 1 > Len(format)
    THEN <<"%", "!", "(", "N", "O", "V", "E", "R", "B", ")">>
             \o DoPrintf(format, i + 1, args, argNum)
    ELSE IF format[i + 1] = "%"
    THEN <<"%">> \o DoPrintf(format, i + 2, args, argNum)
    ELSE IF argNum >= Len(args)
    THEN <<"%", "!", format[i + 1], "(", "M", "I", "S", "S", "I", "N", "G", ")">>
             \o DoPrintf(format, i + 2, args, argNum)
    ELSE PrintArg(args[argNum + 1], format[i + 1])
             \o DoPrintf(format, i + 2, args, argNum + 1)

\* fmt.Sprintf(format, args...)
Sprintf(format, args) == DoPrintf(format, 1, args, 0)

\* mutant of Line: the trailing Break is missing
LineWithoutBreak(g, content) == Inline(g, content)

Line(g, content) == Break(Inline(g, content))

\* mutant of Rawf: nothing is written when fmt reports a problem in the text
RawfDroppingBadFormat(g, format, args) ==
    LET text == Sprintf(format, args)
    IN  IF \E i \in 1..(Len(text) - 1) : text[i] = "%" /\ text[i + 1] = "!"
        THEN g
        ELSE Raw(g, text)

Rawf(g, format, args) == Raw(g, Sprintf(format, args))

Inlinef(g, format, args) == Inline(g, Sprintf(format, args))

Linef(g, format, args) == Line(g, Sprintf(format, args))

\* mutant of String: a line break that ends the text is trimmed
StringTrimmed(g) ==
    IF HasSuffix(g.sb, <<NL>>) THEN SubSeq(g.sb, 1, Len(g.sb) - 1) ELSE g.sb

\* String(): the buffer's text
String(g) == g.sb

\* Block(fn), line 163: the level is raised before fn runs
BlockBefore(g) == Indent(g)

\* mutant of BlockAfter: the level is lowered without Dedent's guard
BlockAfterUnguarded(g) == [g EXCEPT !.indentLevel = @ - 1]

\* mutant of BlockAfter: the level is not lowered after fn
BlockAfterMissing(g) == g

\* Block(fn), line 165: the level is lowered after fn has returned
BlockAfter(g) == Dedent(g)

\* ------------------------------------------------------------------ state
VARIABLES
    sb,             \* Generator.sb, the text written so far
    indentLevel,    \* Generator.indentLevel
    indentString,   \* Generator.indentString
    atStartOfLine,  \* Generator.atStartOfLine
    stack,          \* the Block calls whose fn is running, outermost first
    panicking,      \* a panic raised inside a fn is propagating
    chain,          \* the caller's position in the chain of calls
                    \* Line(a).Break().Break().Line(b), and its a and b
    last            \* the operation just performed and the state it began in

vars ==
    <<sb, indentLevel, indentString, atStartOfLine, stack, panicking, chain,
      last>>

\* the generator held in the variables
Gen ==
    [sb |-> sb, indentLevel |-> indentLevel, indentString |-> indentString,
     atStartOfLine |-> atStartOfLine]

\* the generator becomes g
Become(g) ==
    /\ sb' = g.sb
    /\ indentLevel' = g.indentLevel
    /\ indentString' = g.indentString
    /\ atStartOfLine' = g.atStartOfLine

\* record the operation: its name, its string argument (or result), the
\* generator it began in and, for the end of a Block, that Block's frame
Note(op, content, frames) ==
    last' = [op |-> op, content |-> content, pre |-> Gen, frames |-> frames,
             mismatch |-> FALSE]

RECURSIVE Verbs(_, _)
\* the verbs of a template that take an argument, in order, from position i
Verbs(format, i) ==
    IF i >= Len(format) THEN <<>>
    ELSE IF format[i] # "%" THEN Verbs(format, i + 1)
    ELSE IF format[i + 1] = "%" THEN Verbs(format, i + 2)
    ELSE <<format[i + 1]>> \o Verbs(format, i + 2)

\* the arguments mismatch the template in count or in type
Mismatch(format, args) ==
    LET v == Verbs(format, 1)
    IN  \/ Len(v) # Len(args)
        \/ \E k \in 1..Len(v) : v[k] # args[k].verb

\* record a formatted write: its name, the text fmt produced, the generator
\* it began in and whether its arguments mismatched its template
NoteF(op, format, args) ==
    last' = [op |-> op, content |-> Sprintf(format, args), pre |-> Gen,
             frames |-> <<>>, mismatch |-> Mismatch(format, args)]

\* a running fn has done something that is neither a write nor a Block
Touched(stk) == [i \in 1..Len(stk) |-> [stk[i] EXCEPT !.onlyWrites = FALSE]]

Init ==
    /\ sb = New.sb
    /\ indentLevel = New.indentLevel
    /\ indentString = New.indentString
    /\ atStartOfLine = New.atStartOfLine
    /\ stack = <<>>
    /\ panicking = FALSE
    /\ chain = [pc |-> 0, a |-> <<>>, b |-> <<>>, start |-> 0]
    /\ last = [op |-> "New", content |-> <<>>, pre |-> New, frames |-> <<>>,
               mismatch |-> FALSE]

\* ---------------------------------------------------------------- actions
\* the caller may issue a write: no panic is propagating, buffer below cap
CanWrite == ~panicking /\ Len(sb) < MaxBuf

DoWithSpaces ==
    \E n \in 0..MaxSpaces :
        /\ ~panicking
        /\ Become(WithSpaces(Gen, n))
        /\ last' = [op |-> "WithSpaces", content |-> <<>>, pre |-> Gen,
                    frames |-> <<>>, mismatch |-> FALSE, spaces |-> n]
        /\ stack' = Touched(stack)
        /\ UNCHANGED <<panicking, chain>>

DoWithTabs ==
    /\ ~panicking
    /\ Become(WithTabs(Gen))
    /\ Note("WithTabs", <<>>, <<>>)
    /\ stack' = Touched(stack)
    /\ UNCHANGED <<panicking, chain>>

DoIndent ==
    /\ ~panicking
    /\ indentLevel < MaxDepth
    /\ Become(Indent(Gen))
    /\ Note("Indent", <<>>, <<>>)
    /\ stack' = Touched(stack)
    /\ UNCHANGED <<panicking, chain>>

DoDedent ==
    /\ ~panicking
    /\ Become(Dedent(Gen))
    /\ Note("Dedent", <<>>, <<>>)
    /\ stack' = Touched(stack)
    /\ UNCHANGED <<panicking, chain>>

DoRaw(S) ==
    \E c \in S :
        /\ CanWrite
        /\ Become(Raw(Gen, c))
        /\ Note("Raw", c, <<>>)
        /\ UNCHANGED <<stack, panicking, chain>>

DoBreak ==
    /\ CanWrite
    /\ Become(Break(Gen))
    /\ Note("Break", <<>>, <<>>)
    /\ UNCHANGED <<stack, panicking, chain>>

DoInline(S) ==
    \E c \in S :
        /\ CanWrite
        /\ Become(Inline(Gen, c))
        /\ Note("Inline", c, <<>>)
        /\ UNCHANGED <<stack, panicking, chain>>

DoLine(S) ==
    \E c \in S :
        /\ CanWrite
        /\ Become(Line(Gen, c))
        /\ Note("Line", c, <<>>)
        /\ UNCHANGED <<stack, panicking, chain>>

DoString ==
    /\ ~panicking
    /\ Become(Gen)
    /\ Note("String", String(Gen), <<>>)
    /\ stack' = Touched(stack)
    /\ UNCHANGED <<panicking, chain>>

\* Block is called: line 163 runs and fn starts
BlockEnter ==
    /\ ~panicking
    /\ Len(stack) < MaxNest
    /\ indentLevel < MaxDepth
    /\ Become(BlockBefore(Gen))
    /\ stack' = Append(stack, [entry |-> indentLevel, onlyWrites |-> TRUE])
    /\ Note("BlockEnter", <<>>, <<>>)
    /\ UNCHANGED <<panicking, chain>>

\* the innermost fn returns: line 165 runs and Block returns
BlockReturn ==
    /\ ~panicking
    /\ stack # <<>>
    /\ Become(BlockAfter(Gen))
    /\ stack' = SubSeq(stack, 1, Len(stack) - 1)
    /\ Note("BlockReturn", <<>>, <<stack[Len(stack)]>>)
    /\ UNCHANGED <<panicking, chain>>

\* the innermost fn panics, or lets a panic from a nested Block through:
\* the call at line 164 does not return, line 165 is not reached (Block
\* defers nothing) and the panic arrives in Block's caller
BlockPanic ==
    /\ stack # <<>>
    /\ Become(Gen)
    /\ stack' = SubSeq(stack, 1, Len(stack) - 1)
    /\ panicking' = TRUE
    /\ Note("BlockPanic", <<>>, <<stack[Len(stack)]>>)
    /\ UNCHANGED chain

\* the code the panic has arrived in recovers and carries on
Recover ==
    /\ panicking
    /\ Become(Gen)
    /\ panicking' = FALSE
    /\ stack' = Touched(stack)
    /\ Note("Recover", <<>>, <<>>)
    /\ UNCHANGED chain

Next ==
    \/ DoWithSpaces
    \/ DoWithTabs
    \/ DoIndent
    \/ DoDedent
    \/ DoRaw(Contents)
    \/ DoBreak
    \/ DoInline(Contents)
    \/ DoLine(Contents)
    \/ DoString

\* every operation on a generator, the caller never passing a fn to Block
Spec == Init /\ [][Next]_vars

\* the callers' operations where Block is used: the depth operations, Block
\* with fn returning or panicking, and the writes a fn makes
NextBlock ==
    \/ DoWithTabs
    \/ DoIndent
    \/ DoDedent
    \/ DoInline(Lines)
    \/ DoLine(Lines)
    \/ BlockEnter
    \/ BlockReturn
    \/ BlockPanic
    \/ Recover

SpecBlock == Init /\ [][NextBlock]_vars

DoRawf ==
    \E format \in Formats, args \in ArgLists :
        /\ CanWrite
        /\ Become(Rawf(Gen, format, args))
        /\ NoteF("Rawf", format, args)
        /\ UNCHANGED <<stack, panicking, chain>>

DoInlinef ==
    \E format \in Formats, args \in ArgLists :
        /\ CanWrite
        /\ Become(Inlinef(Gen, format, args))
        /\ NoteF("Inlinef", format, args)
        /\ UNCHANGED <<stack, panicking, chain>>

DoLinef ==
    \E format \in Formats, args \in ArgLists :
        /\ CanWrite
        /\ Become(Linef(Gen, format, args))
        /\ NoteF("Linef", format, args)
        /\ UNCHANGED <<stack, panicking, chain>>

\* the formatted writes, on a generator at any level
NextFmt ==
    \/ DoIndent
    \/ DoRawf
    \/ DoInlinef
    \/ DoLinef

SpecFmt == Init /\ [][NextFmt]_vars

\* the chain of TestBasicIndentation/Empty lines, for any two lines a and b:
\* its first call, Line(a)
ChainLineA ==
    \E a \in Lines :
        /\ chain.pc = 0
        /\ Become(Line(Gen, a))
        /\ Note("Line", a, <<>>)
        /\ chain' = [pc |-> 1, a |-> a, b |-> <<>>, start |-> Len(sb)]
        /\ UNCHANGED <<stack, panicking>>

\* its second and third calls, Break()
ChainBreak ==
    /\ chain.pc \in {1, 2}
    /\ Become(Break(Gen))
    /\ Note("Break", <<>>, <<>>)
    /\ chain' = [chain EXCEPT !.pc = @ + 1]
    /\ UNCHANGED <<stack, panicking>>

\* its last call, Line(b)
ChainLineB ==
    \E b \in Lines :
        /\ chain.pc = 3
        /\ Become(Line(Gen, b))
        /\ Note("Line", b, <<>>)
        /\ chain' = [chain EXCEPT !.pc = 4, !.b = b]
        /\ UNCHANGED <<stack, panicking>>

\* the chain run once, on a generator in any unit, at any level, with any
\* text already written
NextEmptyLines ==
    \/ chain.pc = 0 /\ DoWithSpaces
    \/ chain.pc = 0 /\ DoWithTabs
    \/ chain.pc = 0 /\ DoIndent
    \/ chain.pc = 0 /\ DoRaw(Contents)
    \/ chain.pc = 0 /\ DoBreak
    \/ ChainLineA
    \/ ChainBreak
    \/ ChainLineB

SpecEmptyLines == Init /\ [][NextEmptyLines]_vars

\* ---------------------------------------------------------------- claims
\* the text the operation just performed added to the buffer
Appended == SubSeq(sb, Len(last.pre.sb) + 1, Len(sb))

\* the indentation of a line written by generator g: unit repeated level times
IndentPrefix(g) == Repeat(g.indentString, g.indentLevel)

\* the frame of the Block that has just ended
Ended == last.frames[1]

\* C1: when fn panics without having changed the level itself (the level is
\* the entry level d plus one at the panic), the level is d again when the
\* panic arrives in the caller of Block.
C1_BlockDedentsOnPanic ==
    (last.op = "BlockPanic" /\ last.pre.indentLevel = Ended.entry + 1)
        => indentLevel = Ended.entry

\* C4: inside a Block entered at level d whose fn has made only writes and
\* nested Block calls, a write at nesting level k starts at level d + k, and
\* when such a Block returns the level is the one it was called at.
C4_NestedBlocksCompose ==
    /\ last.op \in {"Inline", "Line"} =>
           \A i \in 1..Len(stack) :
               stack[i].onlyWrites =>
                   last.pre.indentLevel = stack[i].entry + (Len(stack) - i + 1)
    /\ (last.op = "BlockReturn" /\ Ended.onlyWrites) =>
           indentLevel = Ended.entry

\* C4's case: a Block nested in a Block called at level 0 has written a line
\* at level 2 and returned, the outer fn still running at level 1
C4_Witness ==
    /\ last.op = "BlockReturn"
    /\ Ended.onlyWrites
    /\ Ended.entry = 1
    /\ Len(stack) = 1
    /\ stack[1].onlyWrites
    /\ stack[1].entry = 0
    /\ sb = <<SP, SP, SP, SP, "a", NL>>

\* C5: the level is never negative; Dedent at level 0 changes nothing, and
\* Dedent at a level d > 0 leaves the level d - 1.
C5_DepthNeverNegative ==
    /\ indentLevel >= 0
    /\ last.op = "Dedent" =>
           IF last.pre.indentLevel = 0
           THEN Gen = last.pre
           ELSE indentLevel = last.pre.indentLevel - 1

\* C5's case: Dedent was called at level 0 with text in the buffer
C5_Witness ==
    /\ last.op = "Dedent"
    /\ last.pre.indentLevel = 0
    /\ last.pre.sb # <<>>

\* the number of line breaks in s
Breaks(s) == Cardinality({i \in 1..Len(s) : s[i] = NL})

\* the position of the j-th line break of s, 0 when s has fewer
BreakPos(s, j) ==
    IF Breaks(s) < j THEN 0
    ELSE CHOOSE p \in 1..Len(s) : s[p] = NL /\ Breaks(SubSeq(s, 1, p)) = j

\* the text of s after position p, up to the next line break or the end
SublineAfter(s, p) ==
    LET later == {e \in (p + 1)..Len(s) : s[e] = NL}
        stop == IF later = {} THEN Len(s) + 1
                ELSE CHOOSE e \in later : \A f \in later : e <= f
    IN  SubSeq(s, p + 1, stop - 1)

\* s holds no line break
BreakFree(s) == Breaks(s) = 0

\* C6: the flag is true after New, after every Break and after every Inline
\* or Raw of content that ends with a line break, and false after every
\* Inline or Raw of non-empty content that does not end with one.
C6_CursorFlag ==
    /\ last.op \in {"New", "Break"} => atStartOfLine
    /\ (last.op \in {"Inline", "Raw"} /\ last.content # <<>>) =>
           (atStartOfLine <=> last.content[Len(last.content)] = NL)

\* C6's case: an Inline of text followed by a line break has left the flag set
C6_Witness ==
    /\ last.op = "Inline"
    /\ last.content = <<"a", NL>>
    /\ ~last.pre.atStartOfLine
    /\ atStartOfLine

\* C7: Inline of content with k line breaks appends exactly k line breaks,
\* and each non-empty sub-line after a break is appended right after that
\* break, preceded by exactly the indentation (unit repeated level times).
C7_InlineEmbeddedBreaks ==
    last.op = "Inline" =>
        /\ Breaks(Appended) = Breaks(last.content)
        /\ \A j \in 1..Breaks(last.content) :
               LET t == SublineAfter(last.content, BreakPos(last.content, j))
                   q == BreakPos(Appended, j)
                   w == IndentPrefix(last.pre) \o t
               IN  t # <<>> =>
                       /\ q + Len(w) <= Len(Appended)
                       /\ SubSeq(Appended, q + 1, q + Len(w)) = w
                       /\ q + Len(w) = Len(Appended)
                            \/ Appended[q + Len(w) + 1] = NL

\* C7's case: mid-line at a level above 0, Inline of a break followed by text
C7_Witness ==
    /\ last.op = "Inline"
    /\ last.content = <<NL, "a">>
    /\ ~last.pre.atStartOfLine
    /\ last.pre.indentLevel > 0
    /\ last.pre.indentString # <<>>

\* C8: Inline of non-empty content without a line break appends the
\* indentation (unit and level as they are at the call) and the content when
\* the flag is set, and the content alone when it is not.
C8_InlineIndentsAtLineStart ==
    (last.op = "Inline" /\ last.content # <<>> /\ BreakFree(last.content)) =>
        sb = last.pre.sb
                \o (IF last.pre.atStartOfLine THEN IndentPrefix(last.pre)
                    ELSE <<>>)
                \o last.content

\* C8's case: the line began at level 0, Indent was called, then Inline
C8_Witness ==
    /\ last.op = "Inline"
    /\ last.content = <<"a">>
    /\ last.pre.sb = <<"a">>
    /\ ~last.pre.atStartOfLine
    /\ last.pre.indentLevel > 0
    /\ last.pre.indentString # <<>>

\* C9: Line("") at the start of a line appends one line break and nothing
\* else, and Inline appends nothing between two line breaks that are
\* adjacent in its content.
C9_EmptySublineNotIndented ==
    /\ (last.op = "Line" /\ last.content = <<>> /\ last.pre.atStartOfLine) =>
           sb = last.pre.sb \o <<NL>>
    /\ last.op = "Inline" =>
           \A j \in 1..(Breaks(last.content) - 1) :
               BreakPos(last.content, j + 1) = BreakPos(last.content, j) + 1
                   => BreakPos(Appended, j + 1) = BreakPos(Appended, j) + 1

\* C9's case: Inline of two adjacent breaks at a level above 0
C9_Witness ==
    /\ last.op = "Inline"
    /\ last.content = <<NL, NL>>
    /\ last.pre.indentLevel > 0
    /\ last.pre.indentString # <<>>

\* C10: Raw appends its content and nothing else, whatever the level, the
\* unit and the flag are, and leaves the level as it was.
C10_RawVerbatim ==
    last.op = "Raw" =>
        /\ sb = last.pre.sb \o last.content
        /\ indentLevel = last.pre.indentLevel

\* C10's case: Raw at the start of a line at a level above 0, of content
\* with text after a line break
C10_Witness ==
    /\ last.op = "Raw"
    /\ last.content = <<NL, "a">>
    /\ last.pre.atStartOfLine
    /\ last.pre.indentLevel > 0
    /\ last.pre.indentString # <<>>

\* the text the chain has written so far
ChainOut == SubSeq(sb, chain.start + 1, Len(sb))

\* the position in s of its n-th character that is neither break nor
\* indentation, 0 when s has fewer
TextPos(s, n) ==
    LET text(m) == {i \in 1..m : s[i] \notin {NL, SP, TAB}}
    IN  IF Cardinality(text(Len(s))) < n THEN 0
        ELSE CHOOSE p \in text(Len(s)) : Cardinality(text(p)) = n

\* what the chain has written between the text of a and the text of b
Between ==
    SubSeq(ChainOut, TextPos(ChainOut, Len(chain.a)) + 1,
           TextPos(ChainOut, Len(chain.a) + 1) - 1)

\* the chain has run to its end with the tab unit at level 1
ChainDoneTabbed ==
    /\ chain.pc = 4
    /\ indentString = <<TAB>>
    /\ indentLevel = 1

\* C3 as claimed: with the tab unit at level 1, Line(a), Break, Break,
\* Line(b) puts exactly two line breaks, then exactly one tab, between the
\* text of a and the text of b.
C3_TwoBreaksBetween == ChainDoneTabbed => Between = <<NL, NL, TAB>>

\* C3 as amended: with the tab unit at level 1, Line(a), Break, Break,
\* Line(b) puts exactly three line breaks (the one that ends a's line and
\* the two of the Break calls), then exactly one tab, between the text of a
\* and the text of b.
C3_ThreeBreaksBetween == ChainDoneTabbed => Between = <<NL, NL, NL, TAB>>

\* C3's case: the chain has run to its end with the tab unit at level 1
C3_Witness == ChainDoneTabbed /\ chain.a = <<"a">> /\ chain.b = <<"a">>

\* the operation just performed was a formatted write whose arguments
\* mismatched its template
BadFormat == last.op \in {"Rawf", "Inlinef", "Linef"} /\ last.mismatch

\* s holds fmt's problem marker, a percent sign followed by !
Marked(s) == \E i \in 1..(Len(s) - 1) : s[i] = "%" /\ s[i + 1] = "!"

\* C2 as claimed: a formatted write whose arguments mismatch its template
\* writes nothing: buffer, level, unit and flag are as before the call.
C2_BadFormatWritesNothing == BadFormat => Gen = last.pre

\* C2 as amended: a formatted write whose arguments mismatch its template
\* does not fail; fmt marks the mismatch in the text with %!, and the call
\* writes that text as Raw, Inline or Line writes any text: after what was
\* in the buffer, after the indentation for Inlinef and Linef at the start
\* of a line, before a line break for Linef; level and unit stay as they were.
C2_BadFormatWritesMarker ==
    BadFormat =>
        /\ Marked(last.content)
        /\ sb = last.pre.sb
                    \o (IF last.op # "Rawf" /\ last.pre.atStartOfLine
                        THEN IndentPrefix(last.pre) ELSE <<>>)
                    \o last.content
                    \o (IF last.op = "Linef" THEN <<NL>> ELSE <<>>)
        /\ indentLevel = last.pre.indentLevel
        /\ indentString = last.pre.indentString
        /\ atStartOfLine = (last.op = "Linef")

\* C2's case: Rawf with a verb for an int and a string argument
C2_Witness ==
    /\ BadFormat
    /\ last.op = "Rawf"
    /\ last.content =
           <<"%", "!", "d", "(", "s", "t", "r", "i", "n", "g", "=", "a", ")">>

\* C11: Break appends exactly one line break and nothing else, at the start
\* of a line or not, leaves level and unit as they were and sets the flag;
\* so at level 0 the chain Line(a), Break, Break, Line(b) writes a, three
\* line breaks, b and one line break.
C11_BreakAppendsOneBreak ==
    /\ last.op = "Break" =>
           /\ sb = last.pre.sb \o <<NL>>
           /\ indentLevel = last.pre.indentLevel
           /\ indentString = last.pre.indentString
           /\ atStartOfLine
    /\ (chain.pc = 4 /\ indentLevel = 0) =>
           ChainOut = chain.a \o <<NL, NL, NL>> \o chain.b \o <<NL>>

\* C11's case: the chain has run to its end at level 0, after other text
C11_Witness ==
    /\ chain.pc = 4
    /\ indentLevel = 0
    /\ chain.start > 0
    /\ chain.a = <<"a">>

\* C12: Line(content) leaves the generator as Inline(content) followed by
\* Break leaves it: the buffer Inline gives with one line break after it,
\* level and unit as Inline leaves them, the flag set; for every content,
\* the empty one and those that end with a line break included.
C12_LineIsInlineThenBreak ==
    last.op = "Line" =>
        LET i == Inline(last.pre, last.content)
        IN  /\ sb = i.sb \o <<NL>>
            /\ indentLevel = i.indentLevel
            /\ indentString = i.indentString
            /\ atStartOfLine

\* C12's case: Line, in mid-line, of content that ends with a line break
C12_Witness ==
    /\ last.op = "Line"
    /\ last.content = <<"a", NL>>
    /\ ~last.pre.atStartOfLine
    /\ last.pre.indentLevel > 0

\* s is made of n spaces
Spaces(s, n) == Len(s) = n /\ \A i \in 1..n : s[i] = SP

\* C13: WithSpaces and WithTabs leave buffer, level and flag as they were
\* and set the unit to their spaces or to one tab; no other operation
\* changes the unit, so a write at the start of a line indents with the unit
\* of the latest of the two calls.
C13_UnitSetters ==
    [][/\ last'.op \in {"WithSpaces", "WithTabs"} =>
              /\ sb' = sb
              /\ indentLevel' = indentLevel
              /\ atStartOfLine' = atStartOfLine
       /\ last'.op = "WithTabs" => indentString' = <<TAB>>
       /\ last'.op = "WithSpaces" => Spaces(indentString', last'.spaces)
       /\ last'.op \notin {"WithSpaces", "WithTabs"} =>
              indentString' = indentString
       /\ (/\ last'.op \in {"Inline", "Line"}
           /\ atStartOfLine
           /\ last'.content # <<>>
           /\ last'.content[1] # NL) =>
              LET w == sb \o Repeat(indentString, indentLevel)
                          \o <<last'.content[1]>>
              IN  /\ Len(sb') >= Len(w)
                  /\ SubSeq(sb', 1, Len(w)) = w]_vars

\* C13's case: WithTabs called after WithSpaces(1), with a line in the
\* buffer that was indented with that one space
C13_Witness ==
    /\ last.op = "WithTabs"
    /\ last.pre.indentString = <<SP>>
    /\ sb = <<SP, "a">>
    /\ indentString = <<TAB>>

\* s is the beginning of t
IsPrefix(s, t) == Len(s) <= Len(t) /\ SubSeq(t, 1, Len(s)) = s

\* C14: every operation leaves the buffer it found as the beginning of the
\* buffer it leaves: nothing written is removed or changed.
C14_BufferOnlyGrows == [][IsPrefix(sb, sb')]_vars

\* C14's case: a write at the start of a line at a level above 0 has added
\* indentation and text to a buffer that held text
C14_Witness ==
    /\ last.op = "Inline"
    /\ last.pre.sb # <<>>
    /\ last.pre.indentLevel > 0
    /\ Len(sb) > Len(last.pre.sb) + Len(last.content)

\* C15: String returns the whole buffer and changes nothing of the
\* generator, and a second String right after a first returns the same text.
C15_StringIsPureRead ==
    [][last'.op = "String" =>
           /\ last'.content = sb
           /\ Gen' = Gen
           /\ last.op = "String" => last'.content = last.content]_vars

\* C15's case: String called in mid-line on a buffer of two lines
C15_Witness ==
    /\ last.op = "String"
    /\ ~atStartOfLine
    /\ Breaks(sb) > 0
    /\ last.content = sb

\* C16: Inline("") and Raw("") change nothing: buffer, level, unit and flag
\* are as they were, at the start of a line too.
C16_EmptyWriteIsNoOp ==
    (last.op \in {"Inline", "Raw"} /\ last.content = <<>>) => Gen = last.pre

\* C16's case: Raw("") at the start of a line at a level above 0
C16_Witness ==
    /\ last.op = "Raw"
    /\ last.content = <<>>
    /\ last.pre.atStartOfLine
    /\ last.pre.indentLevel > 0
    /\ last.pre.indentString # <<>>

\* C17: Inline of break-free content on a generator with an empty buffer,
\* level 0 and the flag set, followed by String, returns the content.
C17_RoundTrip ==
    (/\ last.op = "Inline"
     /\ last.pre.sb = <<>>
     /\ last.pre.indentLevel = 0
     /\ last.pre.atStartOfLine
     /\ BreakFree(last.content)) => String(Gen) = last.content

\* C17's case: two characters written to a new generator
C17_Witness ==
    /\ last.op = "Inline"
    /\ last.pre = New
    /\ last.content = <<"a", "a">>
    /\ String(Gen) = <<"a", "a">>

\* C18: the flag is set exactly when the buffer is empty or ends in a line
\* break.
C18_FlagIffLineStart ==
    atStartOfLine <=> (sb = <<>> \/ sb[Len(sb)] = NL)

\* C18's case: Raw has ended a line that was open
C18_Witness ==
    /\ last.op = "Raw"
    /\ ~last.pre.atStartOfLine
    /\ last.content # <<>>
    /\ sb[Len(sb)] = NL
    /\ atStartOfLine

\* buffer and flag of g and h are the same
SameText(g, h) == g.sb = h.sb /\ g.atStartOfLine = h.atStartOfLine

\* C19: Inline(a) followed at once by Inline(b) leaves the buffer and the
\* flag that one Inline of a followed by b leaves: for the Inline(b) steps
\* the model takes, and for every b of Contents after every Inline(a).
C19_InlineCompositional ==
    [][last'.op = "Inline" =>
           /\ \A b \in Contents :
                  SameText(Inline(Gen', b),
                           Inline(Gen, last'.content \o b))
           /\ last.op = "Inline" =>
                  SameText(Gen', Inline(last.pre,
                                        last.content \o last'.content))]_vars

\* C19's case: at a level above 0 Inline has written text that ends a line,
\* and an Inline of "a" after it indents as the one Inline of both does
C19_Witness ==
    /\ last.op = "Inline"
    /\ last.content = <<"a", NL>>
    /\ last.pre.atStartOfLine
    /\ indentLevel > 0
    /\ indentString # <<>>
    /\ Inline(Gen, <<"a">>).sb
           = sb \o Repeat(indentString, indentLevel) \o <<"a">>
    /\ Inline(Gen, <<"a">>).sb = Inline(last.pre, <<"a", NL, "a">>).sb

\* C20: when Block returns, the level is the level fn left lowered by one,
\* and 0 if fn left 0; so it is the entry level when fn left one more than
\* the entry level, and lower than the entry level when fn left less.
C20_BlockReturnDepth ==
    last.op = "BlockReturn" =>
        LET e == last.pre.indentLevel
            d == Ended.entry
        IN  /\ indentLevel = (IF e > 0 THEN e - 1 ELSE 0)
            /\ e = d + 1 => indentLevel = d
            /\ (e < d + 1 /\ d > 0) => indentLevel < d

\* C20's case: fn has dedented to 0 inside a Block entered at level 1, and
\* Block returns at level 0
C20_Witness ==
    /\ last.op = "BlockReturn"
    /\ Ended.entry = 1
    /\ last.pre.indentLevel = 0
    /\ indentLevel = 0

====
